---- MODULE Spec2Model ----
(***************************************************************************)
(* Text_To_SQL backend (Express server): the schema cache (loadSchema),    *)
(* the SQL sanitizer (sanitizeSql), the generation pipeline (buildSql)     *)
(* and the POST /api/query and GET /api/schema handlers.                   *)
(*                                                                         *)
(* Text is a sequence of one-character strings, so that trim, toLowerCase, *)
(* startsWith, split, the \b regular expression and includes are computed  *)
(* character by character as the JavaScript runtime computes them.         *)
(***************************************************************************)
EXTENDS Integers, Sequences, FiniteSets, TLC

(***************************************************************************)
(* JavaScript values                                                       *)
(***************************************************************************)
JsStr(s) == [t |-> "string", s |-> s, n |-> 0]
JsNum(k) == [t |-> "number", s |-> <<>>, n |-> k]
JsBool(b) == [t |-> "boolean", s |-> <<>>, n |-> IF b THEN 1 ELSE 0]
JsNull == [t |-> "null", s |-> <<>>, n |-> 0]
JsUndefined == [t |-> "undefined", s |-> <<>>, n |-> 0]
JsObject == [t |-> "object", s |-> <<>>, n |-> 0]

\* ToBoolean: "", 0, null, undefined and false are falsy.
Truthy(v) ==
  CASE v.t = "string" -> Len(v.s) > 0
    [] v.t = "number" -> v.n # 0
    [] v.t = "boolean" -> v.n = 1
    [] v.t = "object" -> TRUE
    [] OTHER -> FALSE

(***************************************************************************)
(* String primitives                                                       *)
(***************************************************************************)
UpperAlpha == <<"A","B","C","D","E","F","G","H","I","J","K","L","M",
                "N","O","P","Q","R","S","T","U","V","W","X","Y","Z">>
LowerAlpha == <<"a","b","c","d","e","f","g","h","i","j","k","l","m",
                "n","o","p","q","r","s","t","u","v","w","x","y","z">>
Digits == {"0","1","2","3","4","5","6","7","8","9"}
WhiteSpace == {" ", "\t", "\n", "\r"}

Range(f) == {f[i] : i \in DOMAIN f}

\* \w of the regular expression: [A-Za-z0-9_]
WordChars == Range(UpperAlpha) \cup Range(LowerAlpha) \cup Digits \cup {"_"}
IsWordChar(c) == c \in WordChars

\* the lower-case letter of each upper-case letter
LowerOf ==
  [c \in Range(UpperAlpha) |-> LowerAlpha[CHOOSE i \in DOMAIN UpperAlpha : UpperAlpha[i] = c]]

ToLowerChar(c) == IF c \in DOMAIN LowerOf THEN LowerOf[c] ELSE c

\* String.prototype.toLowerCase
ToLowerCase(s) == [i \in 1..Len(s) |-> ToLowerChar(s[i])]

\* String.prototype.trim
Trim(s) ==
  LET solid == {i \in 1..Len(s) : s[i] \notin WhiteSpace}
  IN IF solid = {} THEN <<>>
     ELSE LET lo == CHOOSE i \in solid : \A j \in solid : i <= j
              hi == CHOOSE i \in solid : \A j \in solid : i >= j
          IN SubSeq(s, lo, hi)

\* String.prototype.startsWith
StartsWith(s, p) == Len(s) >= Len(p) /\ SubSeq(s, 1, Len(p)) = p

\* String.prototype.endsWith
EndsWith(s, p) == Len(s) >= Len(p) /\ SubSeq(s, Len(s) - Len(p) + 1, Len(s)) = p

\* String.prototype.includes
Includes(s, p) == \E i \in 1..(Len(s) - Len(p) + 1) : SubSeq(s, i, i + Len(p) - 1) = p

\* String.prototype.split with a one-character separator
RECURSIVE SplitFrom(_, _, _)
SplitFrom(s, sep, i) ==
  LET hits == {j \in i..Len(s) : s[j] = sep}
  IN IF hits = {} THEN <<SubSeq(s, i, Len(s))>>
     ELSE LET j == CHOOSE k \in hits : \A m \in hits : k <= m
          IN <<SubSeq(s, i, j - 1)>> \o SplitFrom(s, sep, j + 1)

Split(s, sep) == SplitFrom(s, sep, 1)

\* variant: slice(0) keeps the whole string
DropLast_Keep(s) == s

\* s.slice(0, -1)
DropLast(s) == SubSeq(s, 1, Len(s) - 1)

(***************************************************************************)
(* sanitizeSql                                                             *)
(***************************************************************************)
Kw_select == <<"s","e","l","e","c","t">>

BannedWords ==
  { <<"i","n","s","e","r","t">>, <<"u","p","d","a","t","e">>,
    <<"d","e","l","e","t","e">>, <<"a","l","t","e","r">>,
    <<"d","r","o","p">>, <<"t","r","u","n","c","a","t","e">>,
    <<"c","r","e","a","t","e">>, <<"g","r","a","n","t">>,
    <<"r","e","v","o","k","e">>, <<"c","o","m","m","e","n","t">>,
    <<"c","o","p","y">>, <<"c","a","l","l">> }

\* \b at the gap before position i (1 <= i <= Len(s)+1): exactly one of the
\* two neighbours is a word character; the ends of the text count as none.
WordBoundary(s, i) ==
  LET before == i > 1 /\ IsWordChar(s[i - 1])
      after == i <= Len(s) /\ IsWordChar(s[i])
  IN before # after

\* banned.test(lowered) for /\b(insert|...|call)\b/
BannedTest(s) ==
  \E w \in BannedWords : \E i \in 1..(Len(s) - Len(w) + 1) :
    /\ SubSeq(s, i, i + Len(w) - 1) = w
    /\ WordBoundary(s, i)
    /\ WordBoundary(s, i + Len(w))

ErrSqlMissing == "SQL missing."
ErrNotASelect == "Only SELECT queries are allowed."
ErrMultipleStatements == "Multiple statements are not allowed."
ErrForbiddenOperation == "Query contains a forbidden operation."
ErrCommentsNotAllowed == "Comments are not allowed in generated SQL."

Returned(v) == [ok |-> TRUE, value |-> v, error |-> ""]
Thrown(m) == [ok |-> FALSE, value |-> <<>>, error |-> m]

\* variant: the fragments are counted without the blank ones being filtered
\* out, one trailing ";" being allowed for: split(";").length - 1
StatementCount_SplitLength(trimmed) == Len(Split(trimmed, ";")) - 1

\* trimmed.split(";").filter((s) => s.trim()).length
StatementCount(trimmed) ==
  LET parts == Split(trimmed, ";")
  IN Cardinality({i \in 1..Len(parts) : Len(Trim(parts[i])) > 0})

\* variant: the banned-word test runs on trimmed instead of lowered
sanitizeSql_BannedOnTrimmed(sql) ==
  IF ~Truthy(sql) \/ sql.t # "string" THEN Thrown(ErrSqlMissing)
  ELSE
    LET trimmed == Trim(sql.s)
        lowered == ToLowerCase(trimmed)
    IN IF ~StartsWith(lowered, Kw_select) THEN Thrown(ErrNotASelect)
       ELSE IF StatementCount(trimmed) > 1 THEN Thrown(ErrMultipleStatements)
       ELSE IF BannedTest(trimmed) THEN Thrown(ErrForbiddenOperation)
       ELSE IF Includes(lowered, <<"-","-">>) \/ Includes(lowered, <<"/","*">>)
            THEN Thrown(ErrCommentsNotAllowed)
       ELSE Returned(IF EndsWith(trimmed, <<";">>) THEN DropLast(trimmed) ELSE trimmed)

\* variant: the comment check runs before the banned-word test
sanitizeSql_CommentsFirst(sql) ==
  IF ~Truthy(sql) \/ sql.t # "string" THEN Thrown(ErrSqlMissing)
  ELSE
    LET trimmed == Trim(sql.s)
        lowered == ToLowerCase(trimmed)
    IN IF ~StartsWith(lowered, Kw_select) THEN Thrown(ErrNotASelect)
       ELSE IF StatementCount(trimmed) > 1 THEN Thrown(ErrMultipleStatements)
       ELSE IF Includes(lowered, <<"-","-">>) \/ Includes(lowered, <<"/","*">>)
            THEN Thrown(ErrCommentsNotAllowed)
       ELSE IF BannedTest(lowered) THEN Thrown(ErrForbiddenOperation)
       ELSE Returned(IF EndsWith(trimmed, <<";">>) THEN DropLast(trimmed) ELSE trimmed)

sanitizeSql(sql) ==
  IF ~Truthy(sql) \/ sql.t # "string" THEN Thrown(ErrSqlMissing)
  ELSE
    LET trimmed == Trim(sql.s)
        lowered == ToLowerCase(trimmed)
    IN IF ~StartsWith(lowered, Kw_select) THEN Thrown(ErrNotASelect)
       ELSE IF StatementCount(trimmed) > 1 THEN Thrown(ErrMultipleStatements)
       ELSE IF BannedTest(lowered) THEN Thrown(ErrForbiddenOperation)
       ELSE IF Includes(lowered, <<"-","-">>) \/ Includes(lowered, <<"/","*">>)
            THEN Thrown(ErrCommentsNotAllowed)
       ELSE Returned(IF EndsWith(trimmed, <<";">>) THEN DropLast(trimmed) ELSE trimmed)


(***************************************************************************)
(* Text helpers used by loadSchema's formatting and by the sample inputs   *)
(***************************************************************************)
\* Array.prototype.join
RECURSIVE Join(_, _)
Join(parts, sep) ==
  IF Len(parts) = 0 THEN <<>>
  ELSE IF Len(parts) = 1 THEN parts[1]
  ELSE parts[1] \o sep \o Join(Tail(parts), sep)

RECURSIVE Flatten(_)
Flatten(chunks) == IF Len(chunks) = 0 THEN <<>> ELSE chunks[1] \o Flatten(Tail(chunks))

(***************************************************************************)
(* The database catalog as the two metadata queries of loadSchema see it   *)
(***************************************************************************)
ColumnRow(sch, tab, col, typ) ==
  [table_schema |-> sch, table_name |-> tab, column_name |-> col, data_type |-> typ]
CountRow(sch, tab, est) == [table_schema |-> sch, table_name |-> tab, est_rows |-> est]

\* "empty": no user table (pg_class still lists a relation without columns);
\* "populated": table p.t (a, b) with an estimate and p.u (c) without one.
DbStates == {"empty", "populated"}

ColumnsResult(d) ==
  IF d = "empty" THEN <<>>
  ELSE << ColumnRow(<<"p">>, <<"t">>, <<"a">>, <<"i","n","t">>),
          ColumnRow(<<"p">>, <<"u">>, <<"c">>, <<"i","n","t">>),
          ColumnRow(<<"p">>, <<"t">>, <<"b">>, <<"t","e","x","t">>) >>

CountsResult(d) ==
  IF d = "empty" THEN << CountRow(<<"p">>, <<"x">>, <<"0">>) >>
  ELSE << CountRow(<<"p">>, <<"t">>, <<"3">>), CountRow(<<"p">>, <<"t">>, <<"7">>) >>

\* `${row.table_schema}.${row.table_name}`
RowKey(row) == row.table_schema \o <<".">> \o row.table_name

\* countMap.get(key): the est_rows of the last row set under that key
CountMapHas(counts, key) == \E i \in 1..Len(counts) : RowKey(counts[i]) = key
CountMapGet(counts, key) ==
  LET hits == {i \in 1..Len(counts) : RowKey(counts[i]) = key}
  IN counts[CHOOSE i \in hits : \A j \in hits : i >= j].est_rows

\* keys of tableMap in insertion order (first appearance in columns.rows)
RECURSIVE TableKeys(_, _)
TableKeys(columns, seen) ==
  IF Len(columns) = 0 THEN <<>>
  ELSE LET key == RowKey(columns[1])
       IN IF key \in seen THEN TableKeys(Tail(columns), seen)
          ELSE <<key>> \o TableKeys(Tail(columns), seen \cup {key})

\* tableMap.get(key).columns: `${row.column_name} (${row.data_type})`
RECURSIVE TableColumns(_, _)
TableColumns(columns, key) ==
  IF Len(columns) = 0 THEN <<>>
  ELSE LET row == columns[1]
           rest == TableColumns(Tail(columns), key)
       IN IF RowKey(row) = key
          THEN <<row.column_name \o <<" ", "(">> \o row.data_type \o <<")">>>> \o rest
          ELSE rest

TableMeta(counts, key) ==
  IF CountMapHas(counts, key)
  THEN <<" ","(","e","s","t","_","r","o","w","s"," ","~">> \o CountMapGet(counts, key) \o <<")">>
  ELSE <<>>

\* `${key}${value.meta}: ${value.columns.join(", ")}`
SchemaLine(columns, counts, key) ==
  key \o TableMeta(counts, key) \o <<":", " ">> \o Join(TableColumns(columns, key), <<",", " ">>)

\* schemaLines.join("\n")
FormatSchema(columns, counts) ==
  LET keys == TableKeys(columns, {})
  IN Join([i \in 1..Len(keys) |-> SchemaLine(columns, counts, keys[i])], <<"\n">>)

(***************************************************************************)
(* The schema cache                                                        *)
(***************************************************************************)
SCHEMA_CACHE_MS == 5 * 60 * 1000

\* cachedSchema && now - cachedSchemaLoadedAt < SCHEMA_CACHE_MS
CacheFresh(cache, now) == Truthy(cache.schema) /\ now - cache.loadedAt < SCHEMA_CACHE_MS

\* variant: the timestamp only ever moves forward
RefreshedCache_KeepNewest(cache, text, now) ==
  [schema |-> JsStr(text), loadedAt |-> IF now > cache.loadedAt THEN now ELSE cache.loadedAt]

\* cachedSchema = schemaLines.join("\n"); cachedSchemaLoadedAt = now;
RefreshedCache(cache, text, now) == [schema |-> JsStr(text), loadedAt |-> now]

EmptyCache == [schema |-> JsNull, loadedAt |-> 0]


(***************************************************************************)
(* The model's completion and JSON.parse                                   *)
(*                                                                         *)
(* The content of a completion is a sequence of JSON lexemes; JSONparse    *)
(* accepts a scalar or a flat object whose member values are scalars and   *)
(* throws a SyntaxError on every other sequence.                           *)
(***************************************************************************)
Tok(k) == [k |-> k, s |-> <<>>, n |-> 0]
TStr(s) == [k |-> "str", s |-> s, n |-> 0]
TNum(k) == [k |-> "num", s |-> <<>>, n |-> k]

IsScalarTok(tok) == tok.k \in {"null", "num", "str"}
ScalarValue(tok) ==
  CASE tok.k = "str" -> JsStr(tok.s)
    [] tok.k = "num" -> JsNum(tok.n)
    [] OTHER -> JsNull

Key_sql == <<"s","q","l">>
Key_notes == <<"n","o","t","e","s">>

\* the member list between the braces: key : value (, key : value)*
WellFormedMembers(inner) ==
  /\ Len(inner) % 4 = 3
  /\ \A i \in 1..Len(inner) :
       CASE i % 4 = 1 -> inner[i].k = "str"
         [] i % 4 = 2 -> inner[i].k = ":"
         [] i % 4 = 3 -> IsScalarTok(inner[i])
         [] OTHER -> inner[i].k = ","

\* the value of a key in the parsed object (the last duplicate wins), or undefined
MemberValue(inner, key) ==
  LET hits == {i \in 1..Len(inner) : i % 4 = 1 /\ inner[i].s = key}
  IN IF hits = {} THEN JsUndefined
     ELSE ScalarValue(inner[(CHOOSE i \in hits : \A j \in hits : i >= j) + 2])

ParsedScalar(v) == [t |-> v.t, s |-> v.s, n |-> v.n, sql |-> JsUndefined, notes |-> JsUndefined]
ParsedObject(inner) ==
  [t |-> "object", s |-> <<>>, n |-> 0,
   sql |-> MemberValue(inner, Key_sql), notes |-> MemberValue(inner, Key_notes)]

SyntaxError == [ok |-> FALSE, value |-> ParsedScalar(JsUndefined)]

JSONparse(toks) ==
  IF Len(toks) = 1 /\ IsScalarTok(toks[1])
  THEN [ok |-> TRUE, value |-> ParsedScalar(ScalarValue(toks[1]))]
  ELSE IF Len(toks) >= 2 /\ toks[1].k = "{" /\ toks[Len(toks)].k = "}"
  THEN LET inner == SubSeq(toks, 2, Len(toks) - 1)
       IN IF Len(inner) = 0 \/ WellFormedMembers(inner)
          THEN [ok |-> TRUE, value |-> ParsedObject(inner)]
          ELSE SyntaxError
  ELSE SyntaxError

\* a resolved completion: choices is empty or holds one message whose
\* content is a string, null or absent
Completion(hasChoice, contentType, toks) ==
  [rejected |-> FALSE, hasChoice |-> hasChoice, ctype |-> contentType, toks |-> toks]
RejectedCompletion == [rejected |-> TRUE, hasChoice |-> FALSE, ctype |-> "undefined", toks |-> <<>>]

\* completion.choices[0]?.message?.content
ContentOf(completion) ==
  IF completion.hasChoice THEN [t |-> completion.ctype, toks |-> completion.toks]
  ELSE [t |-> "undefined", toks |-> <<>>]

\* !content
ContentMissing(content) == ~(content.t = "string" /\ Len(content.toks) > 0)

ErrNoResponse == "No response from model."
ErrInvalidJson == "Model returned invalid JSON."
ErrNoSql == "Model did not return SQL."
ErrTypeErrorNull == "Cannot read properties of null (reading 'sql')"

\* buildSql from the completion on: what it returns or throws, and the
\* arguments it passed to sanitizeSql on the way
BuildFailed(msg, sanArgs) ==
  [ok |-> FALSE, sql |-> <<>>, notes |-> JsUndefined, error |-> msg, sanArgs |-> sanArgs]

\* variant: the model's sql is returned as it came, the sanitizer's result dropped
buildSql_RawSql(completion) ==
  LET content == ContentOf(completion)
  IN IF ContentMissing(content) THEN BuildFailed(ErrNoResponse, <<>>)
     ELSE LET parse == JSONparse(content.toks)
              parsed == parse.value
          IN IF ~parse.ok THEN BuildFailed(ErrInvalidJson, <<>>)
             ELSE IF parsed.t \in {"null", "undefined"} THEN BuildFailed(ErrTypeErrorNull, <<>>)
             ELSE IF ~Truthy(parsed.sql) THEN BuildFailed(ErrNoSql, <<>>)
             ELSE LET san == sanitizeSql(parsed.sql)
                  IN IF ~san.ok THEN BuildFailed(san.error, <<parsed.sql>>)
                     ELSE [ok |-> TRUE, sql |-> parsed.sql.s,
                           notes |-> IF Truthy(parsed.notes) THEN parsed.notes ELSE JsStr(<<>>),
                           error |-> "", sanArgs |-> <<parsed.sql>>]

buildSql(completion) ==
  LET content == ContentOf(completion)
  IN IF ContentMissing(content) THEN BuildFailed(ErrNoResponse, <<>>)
     ELSE LET parse == JSONparse(content.toks)
              parsed == parse.value
          IN IF ~parse.ok THEN BuildFailed(ErrInvalidJson, <<>>)
             ELSE IF parsed.t \in {"null", "undefined"} THEN BuildFailed(ErrTypeErrorNull, <<>>)
             ELSE IF ~Truthy(parsed.sql) THEN BuildFailed(ErrNoSql, <<>>)
             ELSE LET san == sanitizeSql(parsed.sql)
                  IN IF ~san.ok THEN BuildFailed(san.error, <<parsed.sql>>)
                     ELSE [ok |-> TRUE, sql |-> san.value,
                           notes |-> IF Truthy(parsed.notes) THEN parsed.notes ELSE JsStr(<<>>),
                           error |-> "", sanArgs |-> <<parsed.sql>>]

\* variant: the question is not trimmed before it is tested
QuestionMissing_NoTrim(question) == ~Truthy(question) \/ question.t # "string"

\* !question || typeof question !== "string" || !question.trim()
QuestionMissing(question) ==
  \/ ~Truthy(question)
  \/ question.t # "string"
  \/ Len(Trim(question.s)) = 0


(***************************************************************************)
(* Sample inputs                                                           *)
(***************************************************************************)
Sp == <<" ">>
Semi == <<";">>
W_Select == <<"S","e","l","e","c","t">>
W_drop == <<"d","r","o","p">>
W_Call == <<"C","a","l","l">>
W_table == <<"t","a","b","l","e">>
W_users == <<"u","s","e","r","s">>
W_from == <<"f","r","o","m">>
W_limit == <<"l","i","m","i","t">>

Sql_DropTable == Flatten(<<W_drop, Sp, W_table, Sp, W_users, Semi>>)
Sql_SelectUsers ==
  Flatten(<<Kw_select, Sp, <<"*">>, Sp, W_from, Sp, W_users, Sp, W_limit, Sp, <<"5","0">>, Semi>>)
Sql_SelectPadded == Flatten(<<Sp, W_Select, Sp, <<"1">>, Sp, Semi, Sp>>)
Sql_TwoStatements == Flatten(<<Kw_select, Sp, <<"1">>, Semi, Sp, Kw_select, Sp, <<"2">>>>)
Sql_SelectCall == Flatten(<<Kw_select, Sp, <<"(">>, W_Call, <<")">>>>)
Sql_SelectComment == Flatten(<<Kw_select, Sp, <<"1">>, Sp, <<"-","-">>>>)

Sql_SelectThenDrop == Flatten(<<Kw_select, Sp, <<"1">>, Semi, W_drop, Sp, W_table, Sp, W_users>>)
Sql_SelectDropColumn == Flatten(<<Kw_select, Sp, W_drop, <<"_">>, <<"x">>, Sp, W_from, Sp, W_users>>)

SqlSamples ==
  { Sql_DropTable, Sql_SelectUsers, Sql_SelectPadded, Sql_TwoStatements,
    Sql_SelectCall, Sql_SelectComment, Sql_SelectThenDrop, Sql_SelectDropColumn, Sp }

JsonObject(members) == <<Tok("{")>> \o members \o <<Tok("}")>>
JsonMember(key, valueTok) == <<TStr(key), Tok(":"), valueTok>>
Note_n == TStr(<<"o","k">>)

\* what the model client can hand back
Completions ==
  { RejectedCompletion,
    Completion(FALSE, "undefined", <<>>),
    Completion(TRUE, "null", <<>>),
    Completion(TRUE, "string", <<>>),
    Completion(TRUE, "string", <<Tok("junk")>>),
    Completion(TRUE, "string", <<Tok("{"), TStr(Key_sql), Tok(":")>>),
    Completion(TRUE, "string", <<Tok("null")>>),
    Completion(TRUE, "string", <<TNum(5)>>),
    Completion(TRUE, "string", JsonObject(<<>>)),
    Completion(TRUE, "string", JsonObject(JsonMember(Key_notes, Note_n))),
    Completion(TRUE, "string", JsonObject(JsonMember(Key_sql, TStr(<<>>)))),
    Completion(TRUE, "string", JsonObject(JsonMember(Key_sql, Tok("null")))),
    Completion(TRUE, "string", JsonObject(JsonMember(Key_sql, TNum(5)))),
    Completion(TRUE, "string", JsonObject(JsonMember(Key_sql, TStr(Sql_SelectUsers)))) }
  \cup { Completion(TRUE, "string",
           JsonObject(JsonMember(Key_sql, TStr(q)) \o <<Tok(",")>> \o JsonMember(Key_notes, Note_n)))
         : q \in SqlSamples }

\* req.body of POST /api/query
Body(present, question) == [present |-> present, question |-> question]
Bodies ==
  { Body(FALSE, JsUndefined), Body(TRUE, JsUndefined), Body(TRUE, JsNum(5)),
    Body(TRUE, JsStr(<<>>)), Body(TRUE, JsStr(<<" ", "\t">>)),
    Body(TRUE, JsStr(<<" ", "h", "i", " ">>)) }

(***************************************************************************)
(* Bounds                                                                  *)
(***************************************************************************)
MaxReq == 2        \* GET /api/schema requests handled in one run
MaxPosts == 1      \* POST /api/query requests handled in one run
MaxWindows == 1    \* cache windows the clock can advance through
MaxChunks == 4     \* chunks concatenated into one sanitizer input

Requests == 1..(IF MaxReq > MaxPosts THEN MaxReq ELSE MaxPosts)
SchemaRequests == 1..MaxReq
QueryRequests == 1..MaxPosts

\* Date.now() at process start lies far beyond SCHEMA_CACHE_MS
Epoch == 2 * SCHEMA_CACHE_MS
ClockValues ==
  {Epoch} \cup {Epoch + k * SCHEMA_CACHE_MS - e : k \in 1..MaxWindows, e \in {0, 1}}

(***************************************************************************)
(* State                                                                   *)
(***************************************************************************)
VARIABLES
  cachedSchema,          \* null or the cached snapshot text
  cachedSchemaLoadedAt,  \* timestamp stored with it
  clock,                 \* Date.now()
  db,                    \* the catalog the database currently holds
  req,                   \* one record per request: position, locals, effects
  lastRefresh,           \* request whose refresh completed last (0: none)
  sanIn, sanRes, sanPrev, sanPc  \* direct calls of sanitizeSql

vars == <<cachedSchema, cachedSchemaLoadedAt, clock, db, req, lastRefresh,
          sanIn, sanRes, sanPrev, sanPc>>
serverVars == <<cachedSchema, cachedSchemaLoadedAt, clock, db, req, lastRefresh>>
sanVars == <<sanIn, sanRes, sanPrev, sanPc>>

IdleRequest ==
  [ pc |-> "idle", route |-> "none",
    now |-> 0, columns |-> <<>>, out |-> JsUndefined, after |-> {},
    held |-> 0, acquired |-> 0, released |-> 0, metaQueries |-> 0, loads |-> 0,
    modelCalls |-> 0, completion |-> RejectedCompletion, sanArgs |-> <<>>,
    poolQueries |-> <<>>, sql |-> <<>>, notes |-> JsUndefined,
    status |-> 0, error |-> "" ]

Cache == [schema |-> cachedSchema, loadedAt |-> cachedSchemaLoadedAt]


(***************************************************************************)
(* Request handling.  JavaScript runs each handler to its next pending     *)
(* await without interleaving, so one action is the code between two       *)
(* awaits on I/O (pool.connect, the metadata queries, the model call,      *)
(* pool.query).                                                            *)
(***************************************************************************)
ErrQuestionRequired == "Question is required"
ErrSchemaFailed == "Failed to load schema"
ErrConnect == "connect failed"
ErrMetadata == "metadata query failed"
ErrModelApi == "model request failed"
ErrExecution == "query failed"

\* res.status(code).json({ error })
Respond(q, code, msg) == [q EXCEPT !.pc = "done", !.status = code, !.error = msg]

\* variant: the client is never handed back
Release_Forgotten(q) == q

\* client.release() in the finally block of loadSchema
Release(q) == [q EXCEPT !.held = @ - 1, !.released = @ + 1]

\* the caller's continuation once loadSchema has returned q.out
SchemaReturned(q) ==
  IF q.route = "schema"
  THEN [q EXCEPT !.pc = "done", !.status = 200, !.columns = <<>>]
  ELSE \* buildSql: the prompt is built and sent; loadSchema's frame is gone
       [q EXCEPT !.pc = "awaitModel", !.modelCalls = @ + 1,
                 !.now = 0, !.columns = <<>>, !.out = JsUndefined, !.after = {}]

\* the caller's catch block once loadSchema has thrown
SchemaFailed(q, msg) ==
  LET gone == [q EXCEPT !.now = 0, !.columns = <<>>, !.after = {}]
  IN IF q.route = "schema" THEN Respond(gone, 500, ErrSchemaFailed)
     ELSE Respond(gone, 400, msg)

\* loadSchema up to its first await
loadSchema(q, route, r) ==
  LET entered == [q EXCEPT !.route = route, !.loads = @ + 1, !.now = clock,
                           !.after = {a \in Requests \ {r} : req[a].status = 200}]
  IN IF CacheFresh(Cache, clock)
     THEN SchemaReturned([entered EXCEPT !.out = cachedSchema])
     ELSE [entered EXCEPT !.pc = "awaitConnect"]

Tick ==
  /\ \E t \in ClockValues : t > clock /\ clock' = t
  /\ UNCHANGED <<cachedSchema, cachedSchemaLoadedAt, db, req, lastRefresh, sanVars>>

DbChange ==
  /\ \E d \in DbStates \ {db} : db' = d
  /\ UNCHANGED <<cachedSchema, cachedSchemaLoadedAt, clock, req, lastRefresh, sanVars>>

\* app.get("/api/schema")
GetSchema(r) ==
  /\ req[r].pc = "idle"
  /\ req' = [req EXCEPT ![r] = loadSchema(req[r], "schema", r)]
  /\ UNCHANGED <<cachedSchema, cachedSchemaLoadedAt, clock, db, lastRefresh, sanVars>>

\* app.post("/api/query")
PostQuery(r, body) ==
  /\ req[r].pc = "idle"
  /\ LET question == IF body.present THEN body.question ELSE JsUndefined
     IN req' = [req EXCEPT ![r] =
                  IF QuestionMissing(question)
                  THEN Respond([req[r] EXCEPT !.route = "query"], 400, ErrQuestionRequired)
                  ELSE loadSchema(req[r], "query", r)]
  /\ UNCHANGED <<cachedSchema, cachedSchemaLoadedAt, clock, db, lastRefresh, sanVars>>

\* await pool.connect(), then both client.query calls are issued
ConnectResolved(r, ok) ==
  /\ req[r].pc = "awaitConnect"
  /\ req' = [req EXCEPT ![r] =
               IF ok
               THEN [req[r] EXCEPT !.pc = "awaitColumns", !.held = @ + 1,
                                   !.acquired = @ + 1, !.metaQueries = @ + 2]
               ELSE SchemaFailed(req[r], ErrConnect)]
  /\ UNCHANGED <<cachedSchema, cachedSchemaLoadedAt, clock, db, lastRefresh, sanVars>>

\* the information_schema.columns query settles (the client runs its
\* queries one after the other)
ColumnsResolved(r, ok) ==
  /\ req[r].pc = "awaitColumns"
  /\ req' = [req EXCEPT ![r] =
               IF ok
               THEN [req[r] EXCEPT !.pc = "awaitCounts", !.columns = ColumnsResult(db)]
               ELSE SchemaFailed(Release(req[r]), ErrMetadata)]
  /\ UNCHANGED <<cachedSchema, cachedSchemaLoadedAt, clock, db, lastRefresh, sanVars>>

\* the pg_class query settles; on success Promise.all resolves, the
\* snapshot is formatted and cached, and the client is released
CountsResolved(r, ok) ==
  /\ req[r].pc = "awaitCounts"
  /\ IF ok
     THEN LET text == FormatSchema(req[r].columns, CountsResult(db))
              fresh == RefreshedCache(Cache, text, req[r].now)
          IN /\ cachedSchema' = fresh.schema
             /\ cachedSchemaLoadedAt' = fresh.loadedAt
             /\ lastRefresh' = r
             /\ req' = [req EXCEPT ![r] =
                          SchemaReturned(Release([req[r] EXCEPT !.out = fresh.schema]))]
     ELSE /\ req' = [req EXCEPT ![r] = SchemaFailed(Release(req[r]), ErrMetadata)]
          /\ UNCHANGED <<cachedSchema, cachedSchemaLoadedAt, lastRefresh>>
  /\ UNCHANGED <<clock, db, sanVars>>

\* await openai.chat.completions.create(...), the rest of buildSql and the
\* call of pool.query
ModelResolved(r, completion) ==
  /\ req[r].pc = "awaitModel"
  /\ req' = [req EXCEPT ![r] =
               IF completion.rejected THEN Respond(req[r], 400, ErrModelApi)
               ELSE LET build == buildSql(completion)
                        seen == [req[r] EXCEPT !.completion = completion,
                                               !.sanArgs = build.sanArgs]
                    IN IF build.ok
                       THEN [seen EXCEPT !.pc = "awaitQuery", !.sql = build.sql,
                                         !.notes = build.notes,
                                         !.poolQueries = Append(@, build.sql)]
                       ELSE Respond(seen, 400, build.error)]
  /\ UNCHANGED <<cachedSchema, cachedSchemaLoadedAt, clock, db, lastRefresh, sanVars>>

\* await pool.query(sql), then the response
QueryResolved(r, ok) ==
  /\ req[r].pc = "awaitQuery"
  /\ req' = [req EXCEPT ![r] =
               IF ok THEN [req[r] EXCEPT !.pc = "done", !.status = 200]
               ELSE Respond(req[r], 400, ErrExecution)]
  /\ UNCHANGED <<cachedSchema, cachedSchemaLoadedAt, clock, db, lastRefresh, sanVars>>

(***************************************************************************)
(* Direct calls of sanitizeSql on bounded inputs                           *)
(***************************************************************************)
Chunks == {Kw_select, W_Select, W_drop, W_Call, <<"_">>, Sp, Semi, <<"-">>, <<"/">>, <<"*">>}

RECURSIVE TextsUpTo(_)
TextsUpTo(k) ==
  IF k = 0 THEN {<<>>}
  ELSE LET shorter == TextsUpTo(k - 1)
       IN shorter \cup {t \o c : t \in shorter, c \in Chunks}

SanInputs ==
  {JsStr(t) : t \in TextsUpTo(MaxChunks)}
    \cup {JsUndefined, JsNull, JsNum(0), JsNum(5), JsBool(TRUE), JsObject}

NoResult == Thrown("")
NoPrev == [set |-> FALSE, value |-> <<>>]

SanitizeCall ==
  /\ sanPc = "call"
  /\ sanRes' = sanitizeSql(sanIn)
  /\ sanPc' = "done"
  /\ UNCHANGED <<sanIn, sanPrev, serverVars>>

\* feed a returned string back with a ";" appended
Resubmit ==
  /\ sanPc = "done"
  /\ sanRes.ok
  /\ ~sanPrev.set
  /\ sanPrev' = [set |-> TRUE, value |-> sanRes.value]
  /\ sanIn' = JsStr(sanRes.value \o Semi)
  /\ sanPc' = "call"
  /\ UNCHANGED <<sanRes, serverVars>>

(***************************************************************************)
(* Specifications                                                          *)
(***************************************************************************)
InitServer ==
  /\ cachedSchema = EmptyCache.schema
  /\ cachedSchemaLoadedAt = EmptyCache.loadedAt
  /\ clock = Epoch
  /\ db \in DbStates
  /\ req = [r \in Requests |-> IdleRequest]
  /\ lastRefresh = 0

SanOff ==
  /\ sanIn = JsUndefined
  /\ sanRes = NoResult
  /\ sanPrev = NoPrev
  /\ sanPc = "off"

Init == InitServer /\ SanOff

LoadSteps ==
  \/ Tick
  \/ DbChange
  \/ \E r \in Requests, ok \in BOOLEAN : ConnectResolved(r, ok)
  \/ \E r \in Requests, ok \in BOOLEAN : ColumnsResolved(r, ok)
  \/ \E r \in Requests, ok \in BOOLEAN : CountsResolved(r, ok)

\* POST /api/query requests
Next ==
  \/ LoadSteps
  \/ \E r \in QueryRequests, body \in Bodies : PostQuery(r, body)
  \/ \E r \in QueryRequests, completion \in Completions : ModelResolved(r, completion)
  \/ \E r \in QueryRequests, ok \in BOOLEAN : QueryResolved(r, ok)

Spec == Init /\ [][Next]_vars

\* GET /api/schema requests: loadSchema calls and nothing else
NextSchema ==
  \/ LoadSteps
  \/ \E r \in SchemaRequests : GetSchema(r)

SpecSchema == Init /\ [][NextSchema]_vars

\* sanitizeSql alone
InitSan ==
  /\ InitServer
  /\ db = "empty"
  /\ sanIn \in SanInputs
  /\ sanRes = NoResult
  /\ sanPrev = NoPrev
  /\ sanPc = "call"

NextSan == SanitizeCall \/ Resubmit

SpecSan == InitSan /\ [][NextSan]_vars


(***************************************************************************)
(* Vocabulary of the properties, stated without the sanitizer's own        *)
(* operators                                                               *)
(***************************************************************************)
NamedBannedWords ==
  { <<"i","n","s","e","r","t">>, <<"u","p","d","a","t","e">>,
    <<"d","e","l","e","t","e">>, <<"a","l","t","e","r">>,
    <<"d","r","o","p">>, <<"t","r","u","n","c","a","t","e">>,
    <<"c","r","e","a","t","e">>, <<"g","r","a","n","t">>,
    <<"r","e","v","o","k","e">>, <<"c","o","m","m","e","n","t">>,
    <<"c","o","p","y">>, <<"c","a","l","l">> }

\* w occupies s[i..j] and no word character touches it on either side
WholeWordAt(s, w, i) ==
  LET j == i + Len(w) - 1
  IN /\ j <= Len(s)
     /\ \A k \in 1..Len(w) : s[i + k - 1] = w[k]
     /\ (i = 1 \/ ~IsWordChar(s[i - 1]))
     /\ (j = Len(s) \/ ~IsWordChar(s[j + 1]))

\* the text holds a banned keyword as a whole word, in any letter case
HasBannedWord(text) ==
  LET low == ToLowerCase(text)
  IN \E w \in NamedBannedWords : \E i \in 1..Len(low) : WholeWordAt(low, w, i)

HasCommentMarker(text) ==
  \E i \in 1..(Len(text) - 1) :
    (text[i] = "-" /\ text[i + 1] = "-") \/ (text[i] = "/" /\ text[i + 1] = "*")

IsBlankChar(c) == c \in WhiteSpace \cup {";"}

\* number of ";"-separated fragments that hold something other than whitespace:
\* positions of a first non-blank character of a fragment
FragmentStarts(text) ==
  { i \in 1..Len(text) :
      /\ ~IsBlankChar(text[i])
      /\ \/ \A k \in 1..(i - 1) : IsBlankChar(text[k])
         \/ \E k \in 1..(i - 1) :
              text[k] = ";" /\ \A m \in (k + 1)..(i - 1) : text[m] \in WhiteSpace }

StartsWithSelect(text) ==
  LET low == ToLowerCase(Trim(text))
  IN Len(low) >= 6 /\ \A k \in 1..6 : low[k] = Kw_select[k]

NonEmptyString(v) == v.t = "string" /\ Len(v.s) > 0

Semicolons(text) == {i \in 1..Len(text) : text[i] = ";"}

(***************************************************************************)
(* C2                                                                      *)
(***************************************************************************)
SanReturned == sanPc = "done" /\ sanRes.ok
SanOutput == Trim(ToLowerCase(sanRes.value))

\* C2 as claimed: every string sanitizeSql returns, lower-cased and trimmed,
\* starts with select, holds no ";" other than one terminating ";", holds
\* neither "--" nor "/*" and holds no banned keyword as a whole word.
C2_AsClaimed ==
  SanReturned =>
    /\ StartsWithSelect(SanOutput)
    /\ Cardinality(Semicolons(SanOutput)) <= 1
    /\ \A i \in Semicolons(SanOutput) : i = Len(SanOutput)
    /\ ~HasCommentMarker(SanOutput)
    /\ ~HasBannedWord(SanOutput)

\* C2 amended: every string sanitizeSql returns, lower-cased and trimmed,
\* starts with select, holds nothing but ";" and whitespace after its first
\* ";" (one statement, possibly followed by empty ones), holds neither "--"
\* nor "/*" and holds no banned keyword as a whole word.
C2_SanitizedShape ==
  SanReturned =>
    /\ StartsWithSelect(SanOutput)
    /\ \A i \in Semicolons(SanOutput) :
         \A k \in (i + 1)..Len(SanOutput) : IsBlankChar(SanOutput[k])
    /\ ~HasCommentMarker(SanOutput)
    /\ ~HasBannedWord(SanOutput)

\* an input ending in three semicolons was accepted: two remain in the output
C2_Witness ==
  /\ SanReturned
  /\ ~sanPrev.set
  /\ sanIn = JsStr(Kw_select \o Sp \o Semi \o Semi)
  /\ sanRes.value = Kw_select \o Sp \o Semi

(***************************************************************************)
(* C4                                                                      *)
(***************************************************************************)
\* the error of the earliest violated rule, "" when no rule is violated
FirstViolation(v) ==
  IF ~NonEmptyString(v) THEN ErrSqlMissing
  ELSE IF ~StartsWithSelect(v.s) THEN ErrNotASelect
  ELSE IF Cardinality(FragmentStarts(v.s)) > 1 THEN ErrMultipleStatements
  ELSE IF HasBannedWord(v.s) THEN ErrForbiddenOperation
  ELSE IF HasCommentMarker(v.s) THEN ErrCommentsNotAllowed
  ELSE ""

\* C4: sanitizeSql raises the error of the earliest violated rule in the
\* order SqlMissing, NotASelect, MultipleStatements, ForbiddenOperation,
\* CommentsNotAllowed, and accepts an input that violates none.
C4_FirstFailingRuleWins ==
  sanPc = "done" =>
    IF FirstViolation(sanIn) = "" THEN sanRes.ok
    ELSE ~sanRes.ok /\ sanRes.error = FirstViolation(sanIn)

\* an input that has two statements and a banned word in the second
C4_Witness ==
  /\ sanPc = "done"
  /\ sanIn = JsStr(Kw_select \o Semi \o W_drop)
  /\ sanRes.error = ErrMultipleStatements

(***************************************************************************)
(* C6                                                                      *)
(***************************************************************************)
\* C6: when sanitizeSql returned o, sanitizeSql(o + ";") returns exactly o.
C6_Idempotent ==
  (sanPc = "done" /\ sanPrev.set) => (sanRes.ok /\ sanRes.value = sanPrev.value)

\* the output "select ;" of "select ;;" was fed back with a ";" appended
C6_Witness ==
  /\ sanPc = "done"
  /\ sanPrev.set
  /\ sanPrev.value = Kw_select \o Sp \o Semi
  /\ sanIn = JsStr(Kw_select \o Sp \o Semi \o Semi)
  /\ sanRes.ok


(***************************************************************************)
(* Vocabulary of the request properties                                    *)
(***************************************************************************)
\* the handler has taken a resolved completion through buildSql
Processed(q) == ~q.completion.rejected

\* the value under the key sql of the JSON the model returned
ModelSql(q) == JSONparse(ContentOf(q.completion).toks).value.sql

Rejected400(q, msg) == q.pc = "done" /\ q.status = 400 /\ q.error = msg

(***************************************************************************)
(* C1                                                                      *)
(***************************************************************************)
\* C1: a POST /api/query request calls pool.query at most once, and only
\* with the string sanitizeSql returned for the model's sql field of that
\* request; a request that failed before or in sanitizeSql never calls it.
C1_OnlySanitizedExecuted ==
  \A r \in Requests :
    LET q == req[r]
        san == sanitizeSql(ModelSql(q))
    IN /\ Len(q.poolQueries) <= 1
       /\ (q.pc = "done" /\ q.status = 400 /\ q.error # ErrExecution) => q.poolQueries = <<>>
       /\ ~Processed(q) => q.poolQueries = <<>>
       /\ Processed(q) =>
            IF san.ok
            THEN q.sanArgs = <<ModelSql(q)>> /\ q.poolQueries = <<san.value>>
            ELSE q.poolQueries = <<>>

\* the model's "select * from users limit 50;" ran without its semicolon
C1_Witness ==
  \E r \in Requests :
    /\ req[r].status = 200
    /\ ModelSql(req[r]) = JsStr(Sql_SelectUsers)
    /\ req[r].poolQueries = <<DropLast(Sql_SelectUsers)>>

(***************************************************************************)
(* C3                                                                      *)
(***************************************************************************)
ModelSqlHasBannedWord(q) ==
  Processed(q) /\ ModelSql(q).t = "string" /\ HasBannedWord(ModelSql(q).s)

\* C3 as claimed: whenever the model's sql holds a banned keyword as a whole
\* word, in any position, the request is answered 400 with the forbidden
\* operation message and nothing is executed.
C3_AsClaimed ==
  \A r \in Requests :
    ModelSqlHasBannedWord(req[r]) =>
      Rejected400(req[r], ErrForbiddenOperation) /\ req[r].poolQueries = <<>>

\* C3 amended: a model sql that holds a banned keyword is never executed and
\* is answered 400 with the message of the earliest rule it violates: the
\* forbidden operation message when it starts with select and holds one
\* statement, "Only SELECT queries are allowed." when it does not start with
\* select (so for "drop table users;"), the multiple statements message
\* otherwise.
C3_BannedWordRejected ==
  \A r \in Requests :
    ModelSqlHasBannedWord(req[r]) =>
      LET text == ModelSql(req[r]).s
      IN /\ req[r].poolQueries = <<>>
         /\ req[r].sanArgs = <<ModelSql(req[r])>>
         /\ Rejected400(req[r],
              IF ~StartsWithSelect(text) THEN ErrNotASelect
              ELSE IF Cardinality(FragmentStarts(text)) > 1 THEN ErrMultipleStatements
              ELSE ErrForbiddenOperation)
         /\ text = Sql_DropTable => req[r].error = ErrNotASelect

\* "select (Call)" came back from the model and was refused as forbidden
C3_Witness ==
  \E r \in Requests :
    /\ ModelSql(req[r]) = JsStr(Sql_SelectCall)
    /\ Processed(req[r])
    /\ Rejected400(req[r], ErrForbiddenOperation)

(***************************************************************************)
(* C7                                                                      *)
(***************************************************************************)
ContentText(q) == ContentOf(q.completion)
ContentAbsentOrEmpty(q) == ContentText(q).t # "string" \/ Len(ContentText(q).toks) = 0
ContentIsJson(q) == ~ContentAbsentOrEmpty(q) /\ JSONparse(ContentText(q).toks).ok
ContentLacksSqlKey(q) == ContentIsJson(q) /\ ModelSql(q).t = "undefined"

NothingSanitizedOrExecuted(q) == q.sanArgs = <<>> /\ q.poolQueries = <<>>

\* C7: an absent or empty content is answered 400 "No response from
\* model.", a content that is not JSON 400 "Model returned invalid JSON.",
\* a JSON content without the key sql 400 "Model did not return SQL."; in
\* each case neither sanitizeSql nor pool.query is called.
C7_ModelFailuresClassified ==
  \A r \in Requests :
    LET q == req[r]
    IN Processed(q) =>
         /\ ContentAbsentOrEmpty(q) =>
              Rejected400(q, ErrNoResponse) /\ NothingSanitizedOrExecuted(q)
         /\ (~ContentAbsentOrEmpty(q) /\ ~ContentIsJson(q)) =>
              Rejected400(q, ErrInvalidJson) /\ NothingSanitizedOrExecuted(q)
         /\ ContentLacksSqlKey(q) =>
              Rejected400(q, ErrNoSql) /\ NothingSanitizedOrExecuted(q)

(***************************************************************************)
(* C8                                                                      *)
(***************************************************************************)
\* the body has no question, a question that is no string, or a blank one
QuestionAbsent(body) ==
  \/ ~body.present
  \/ body.question.t # "string"
  \/ \A i \in 1..Len(body.question.s) : body.question.s[i] \in WhiteSpace

\* C8: a POST /api/query without a usable question is answered 400
\* "Question is required" in the step that receives it; that step calls
\* neither loadSchema nor the model nor pool.query, takes no connection and
\* leaves the schema cache as it was.
C8_QuestionRequired ==
  [][ \A r \in QueryRequests : \A body \in Bodies :
        (PostQuery(r, body) /\ QuestionAbsent(body)) =>
          /\ Rejected400(req'[r], ErrQuestionRequired)
          /\ req'[r].loads = 0
          /\ req'[r].acquired = 0
          /\ req'[r].metaQueries = 0
          /\ req'[r].modelCalls = 0
          /\ req'[r].poolQueries = <<>>
          /\ cachedSchema' = cachedSchema
          /\ cachedSchemaLoadedAt' = cachedSchemaLoadedAt ]_vars

C8_Witness ==
  \E r \in Requests :
    /\ Rejected400(req[r], ErrQuestionRequired)
    /\ req[r].loads = 0
    /\ req[r].modelCalls = 0


(***************************************************************************)
(* C5                                                                      *)
(***************************************************************************)
\* the call of request a queried the catalog and cached what it returned
Refreshed(q) == q.pc = "done" /\ q.status = 200 /\ q.metaQueries = 2

\* C5, for two calls that do not overlap: when a call has refreshed the
\* cache and returned, a call begun afterwards less than SCHEMA_CACHE_MS
\* after the first one's timestamp issues no metadata query, takes no
\* connection and returns the same text, whatever snapshot the database
\* produced.
C5_SecondCallServedFromCache ==
  \A a \in Requests : \A b \in Requests :
    ( /\ Refreshed(req[a])
      /\ a \in req[b].after
      /\ req[b].now - req[a].now < SCHEMA_CACHE_MS
      /\ \A c \in Requests \ {a, b} : req[c].pc = "idle" )
    => /\ req[b].metaQueries = 0
       /\ req[b].acquired = 0
       /\ req[b].pc = "done" => (req[b].status = 200 /\ req[b].out = req[a].out)

(***************************************************************************)
(* C9                                                                      *)
(***************************************************************************)
\* C9: every connection loadSchema acquires is released exactly once: a
\* call that has returned or thrown holds none and has released as often as
\* it acquired, no call releases what it does not hold, and a call served
\* from the cache or refused by pool.connect never holds one.
C9_ConnectionsReleased ==
  /\ [](\A r \in Requests :
          LET q == req[r]
          IN /\ q.held = q.acquired - q.released
             /\ q.held \in {0, 1}
             /\ q.released <= 1
             /\ q.pc \in {"idle", "done"} => (q.held = 0 /\ q.released = q.acquired)
             /\ q.pc \in {"awaitColumns", "awaitCounts"} => q.held = 1)
  /\ [][ \A r \in Requests :
           /\ ConnectResolved(r, FALSE) => (req'[r].acquired = 0 /\ req'[r].held = 0)
           /\ (GetSchema(r) /\ req'[r].pc = "done") =>
                (req'[r].acquired = 0 /\ req'[r].held = 0)
           /\ (ColumnsResolved(r, FALSE) \/ CountsResolved(r, FALSE) \/ CountsResolved(r, TRUE)) =>
                (req'[r].released = 1 /\ req'[r].held = 0) ]_vars

\* one call threw on a failed metadata query, the other returned a fresh
\* snapshot: both took a connection and gave it back
C9_Witness ==
  \E a \in Requests : \E b \in Requests :
    /\ req[a].pc = "done" /\ req[a].status = 500
    /\ req[a].acquired = 1 /\ req[a].released = 1
    /\ req[b].pc = "done" /\ req[b].status = 200
    /\ req[b].acquired = 1 /\ req[b].released = 1

(***************************************************************************)
(* C10                                                                     *)
(***************************************************************************)
\* C10: every call that observes a cache miss and obtains a connection
\* issues its own two metadata queries; the cache always holds the snapshot
\* together with the timestamp of the call whose refresh completed last
\* (nothing before the first refresh), and a call that fails leaves both
\* variables as they were.
C10_LastWriteWins ==
  /\ [](/\ \A r \in Requests : req[r].acquired = 1 => req[r].metaQueries = 2
        /\ IF lastRefresh = 0
           THEN cachedSchema = JsNull /\ cachedSchemaLoadedAt = 0
           ELSE /\ Refreshed(req[lastRefresh])
                /\ cachedSchema = req[lastRefresh].out
                /\ cachedSchemaLoadedAt = req[lastRefresh].now)
  /\ [][ \A r \in Requests :
           (req[r].pc # "done" /\ req'[r].pc = "done" /\ req'[r].status # 200) =>
             (cachedSchema' = cachedSchema /\ cachedSchemaLoadedAt' = cachedSchemaLoadedAt) ]_vars

\* two calls overlapped; the one that began earlier finished last, and the
\* cache carries its older timestamp and its snapshot
C10_Witness ==
  \E a \in Requests : \E b \in Requests :
    /\ Refreshed(req[a]) /\ Refreshed(req[b])
    /\ a \notin req[b].after /\ b \notin req[a].after
    /\ lastRefresh = a
    /\ req[a].now < req[b].now
    /\ req[a].out # req[b].out
    /\ cachedSchemaLoadedAt = req[a].now
    /\ cachedSchema = req[a].out

====
